---- MODULE Spec2Model ----
(***************************************************************************)
(* Model of AVR_ServoController_PCA9685.ino: setup(), loop() and           *)
(* inputScan().  One action per section of loop(); the position in loop()  *)
(* is pc.  Time is millis(); it advances in delay() and in the busy-wait   *)
(* of the Next-Servo button.  What the pins read is the environment's      *)
(* choice, drawn in Next.                                                   *)
(***************************************************************************)
EXTENDS Integers, Sequences, FiniteSets, TLC

VARIABLES
    pc,           \* position in the sketch: "setup", then the sections of loop()
    spos,         \* uint8_t spos[3][nservos]: 0=firstPos, 1=secondPos, 2=currentPos
    eeprom,       \* the EEPROM bytes 0 .. 3*nservos
    activeServo,  \* uint8_t activeServo
    activePos,    \* uint8_t activePos
    lastchange,   \* long lastchange; 0 = nothing to save
    delayt,       \* uint8_t delayt, local of loop()
    now,          \* millis()
    pin,          \* level on controlPin[s]
    forceInit,    \* the build's INIT macro
    target,       \* last angle commanded to servo[s]; -1 before any command
    cmds,         \* servo commands issued by the last step, in order
    ev,           \* the last step taken
    acts,         \* pressed readings and input level changes so far
    wake,         \* start of the operator's current stretch of activity
    lastAct,      \* time of the last pressed reading or input found changed; -1 = none
    heldFrom,     \* activeServo when the Next-Servo press was detected
    reps,         \* passes of the two while loops made in this pass of loop()
    posnRun       \* Next-Position readings found pressed in a row, pass after pass

envv == <<acts, wake, lastAct, heldFrom>>
vars == <<pc, spos, eeprom, activeServo, activePos, lastchange, delayt, now,
          pin, forceInit, target, cmds, ev, acts, wake, lastAct, heldFrom,
          reps, posnRun>>

----------------------------------------------------------------------------
\* Program constants

nservos == 8
MINPOSN == 0
MAXPOSN == 180
MAGIC == 165          \* 0xA5
DEFOFFSET == 40
BOOTDELAY == 2000
DELAY0 == 200         \* initial delayt
DELAYSTEP == 10
DELAYMIN == 50
HOLDRESET == 2000
BTNDELAY == 200       \* delay(200) after Next-Servo / Next-Position
SAVEAFTER == 20000
LOOPDELAY == 100
BYTE == 256

\* Bounds of the model

MaxActs == 2          \* pressed readings and input level changes explored
MaxBrowse == 9        \* Next-Servo presses explored when browsing
MaxHold == 17         \* passes of the Up and Down while loops explored

Servos == 0 .. (nservos - 1)
EEAddrs == 0 .. (3 * nservos)

----------------------------------------------------------------------------
\* Helpers, as the code computes them

\* offset of spos[r][s] in the EEPROM image written at address 1
Addr(r, s) == 1 + r * nservos + s

\* EEPROM.put(1, spos): byte copy of the 3 x nservos array
EEPROMputFromSecond(ee, t) ==
    [a \in EEAddrs |->
        IF a >= 2 THEN t[(a - 1) \div nservos][(a - 1) % nservos] ELSE ee[a]]
EEPROMput(ee, t) ==
    [a \in EEAddrs |->
        IF a >= 1 THEN t[(a - 1) \div nservos][(a - 1) % nservos] ELSE ee[a]]

\* EEPROM.get(1, spos)
EEPROMget(ee) == [r \in 0 .. 2 |-> [s \in Servos |-> ee[Addr(r, s)]]]

\* the table written when the EEPROM is not initialised
DefaultSwapped ==
    [r \in 0 .. 2 |-> [s \in Servos |->
        CASE r = 0 -> (MAXPOSN - MINPOSN) \div 2 - DEFOFFSET
          [] r = 1 -> (MAXPOSN - MINPOSN) \div 2 + DEFOFFSET
          [] OTHER -> 0]]
DefaultTable ==
    [r \in 0 .. 2 |-> [s \in Servos |->
        CASE r = 0 -> (MAXPOSN - MINPOSN) \div 2 + DEFOFFSET
          [] r = 1 -> (MAXPOSN - MINPOSN) \div 2 - DEFOFFSET
          [] OTHER -> 0]]

\* if(mn != 0xA5 || INIT)
NeedsInitAlways(mn, init) == TRUE
NeedsInit(mn, init) == mn # MAGIC \/ init # 0

\* if( spos[..] < MAXPOSN ) spos[..]++
IncNoClamp(v) == (v + 1) % BYTE
Inc(v) == IF v < MAXPOSN THEN v + 1 ELSE v

\* if( spos[..] > MINPOSN ) spos[..]--
DecNoClamp(v) == (v - 1) % BYTE
Dec(v) == IF v > MINPOSN THEN v - 1 ELSE v

\* delayt -= 10; if(delayt<50) delayt=50;
NextDelayNoFloor(d) == (d - DELAYSTEP) % BYTE
NextDelay(d) ==
    LET e == (d - DELAYSTEP) % BYTE IN IF e < DELAYMIN THEN DELAYMIN ELSE e

\* !spos[2][s]
NotStuck(x) == x
Not(x) == IF x = 0 THEN 1 ELSE 0

\* (millis()-lastchange)>2000
HeldLongAtLeast(t, lc) == (t - lc) >= HOLDRESET
HeldLong(t, lc) == (t - lc) > HOLDRESET

\* if( ++activeServo >= nservos) activeServo = 0;
NextIndexStay(a) == IF a >= nservos THEN 0 ELSE a
NextIndex(a) == LET b == (a + 1) % BYTE IN IF b >= nservos THEN 0 ELSE b

\* if( ++activePos > 1) activePos = 0;
NextPosStuck(p) == 0
NextPos(p) == LET q == (p + 1) % BYTE IN IF q > 1 THEN 0 ELSE q

\* lastchange!=0 && millis()>(lastchange+20000)
SaveDueAtLeast(t, lc) == lc # 0 /\ t >= lc + SAVEAFTER
SaveDueAlways(t, lc) == t > lc + SAVEAFTER
SaveDueLate(t, lc) == lc # 0 /\ t > lc + SAVEAFTER + 2 * LOOPDELAY
SaveDue(t, lc) == lc # 0 /\ t > lc + SAVEAFTER

\* a servo command: startEaseTo ("ease") or write ("write")
Cmd(k, s, a) == [kind |-> k, servo |-> s, angle |-> a]

\* servo[i].startEaseTo( spos[spos[2][i]][i] ) for i = from .. nservos-1
EaseAllButLast(t, from) ==
    [i \in 1 .. (nservos - 1 - from) |->
        Cmd("ease", from + i - 1, t[t[2][from + i - 1]][from + i - 1])]
RECURSIVE EaseAll(_, _)
EaseAll(t, from) ==
    IF from >= nservos THEN <<>>
    ELSE <<Cmd("ease", from, t[t[2][from]][from])>> \o EaseAll(t, from + 1)

\* the targets after the commands cs, issued in order
RECURSIVE Apply(_, _)
Apply(tg, cs) ==
    IF cs = <<>> THEN tg
    ELSE Apply([tg EXCEPT ![Head(cs).servo] = Head(cs).angle], Tail(cs))

\* digitalRead(controlPin[s]) != spos[2][s]
Mismatch(lv, t, s) == lv[s] # t[2][s]

\* spos after the for loop of inputScan() reading the levels lv
ScanTable(lv, t) ==
    [t EXCEPT ![2] = [s \in Servos |->
        IF Mismatch(lv, t, s) THEN Not(t[2][s]) ELSE t[2][s]]]

\* the startEaseTo commands of inputScan(), s = from .. nservos-1
ScanCmdsNone(lv, t, from) == <<>>
RECURSIVE ScanCmds(_, _, _)
ScanCmds(lv, t, from) ==
    IF from >= nservos THEN <<>>
    ELSE (IF Mismatch(lv, t, from)
          THEN <<Cmd("ease", from, t[Not(t[2][from])][from])>>
          ELSE <<>>) \o ScanCmds(lv, t, from + 1)

----------------------------------------------------------------------------
\* Initial state: power-on, before setup()

ZeroTable == [r \in 0 .. 2 |-> [s \in Servos |-> 0]]

\* tables a previous run may have saved: the defaults, and a table whose
\* channel 0 sits on the limits, in its second position
EdgeTable ==
    [DefaultTable EXCEPT ![0][0] = MAXPOSN, ![1][0] = MINPOSN, ![2][0] = 1]
InitTables == {DefaultTable, EdgeTable}

\* an EEPROM never written: every cell reads 0xFF
ErasedEEPROM == [a \in EEAddrs |-> BYTE - 1]
InitStores ==
    {ErasedEEPROM} \cup
    {EEPROMput([ErasedEEPROM EXCEPT ![0] = MAGIC], t) : t \in InitTables}

Init ==
    /\ pc = "setup"
    /\ spos = ZeroTable
    /\ eeprom \in InitStores
    /\ activeServo = 0
    /\ activePos = 0
    /\ lastchange = 0
    /\ delayt = DELAY0
    /\ now = 0
    /\ pin = [s \in Servos |-> 0]
    /\ forceInit \in {0, 1}
    /\ target = [s \in Servos |-> -1]
    /\ cmds = <<>>
    /\ ev = "boot"
    /\ acts = 0
    /\ wake = 0
    /\ lastAct = -1
    /\ heldFrom = 0
    /\ reps = 0
    /\ posnRun = 0

----------------------------------------------------------------------------
\* setup()

Startup ==
    /\ pc = "setup"
    /\ LET mn == eeprom[0]
           ee == IF NeedsInit(mn, forceInit)
                 THEN EEPROMput([eeprom EXCEPT ![0] = MAGIC], DefaultTable)
                 ELSE eeprom
           t  == EEPROMget(ee)
           cs == EaseAll(t, 0)
       IN /\ eeprom' = ee
          /\ spos' = t
          /\ cmds' = cs
          /\ target' = Apply(target, cs)
    /\ now' = now + BOOTDELAY
    /\ delayt' = DELAY0
    /\ pc' = "up"
    /\ ev' = "Startup"
    /\ reps' = 0
    /\ posnRun' = 0
    /\ UNCHANGED <<activeServo, activePos, lastchange, pin, forceInit>>

----------------------------------------------------------------------------
\* loop(): the sections, in program order

\* while(digitalRead(up)==0) { ... }   one pass with the button read pressed;
\* the inputs are not read here, and what they do meanwhile is the
\* environment's choice
UpRepeatScanning ==
    /\ pc = "up"
    /\ LET v == Inc(spos[activePos][activeServo])
           t == [spos EXCEPT ![activePos][activeServo] = v]
           cs == <<Cmd("write", activeServo, v)>> \o ScanCmds(pin, t, 0)
           d == NextDelay(delayt)
       IN /\ lastchange' = now
          /\ spos' = ScanTable(pin, t)
          /\ cmds' = cs
          /\ target' = Apply(target, cs)
          /\ delayt' = d
          /\ now' = now + d
    /\ ev' = "UpRepeat"
    /\ reps' = reps + 1
    /\ UNCHANGED <<pc, eeprom, activeServo, activePos, forceInit, posnRun>>

UpRepeat ==
    /\ pc = "up"
    /\ LET v == Inc(spos[activePos][activeServo])
           c == Cmd("write", activeServo, v)
           d == NextDelay(delayt)
       IN /\ lastchange' = now
          /\ spos' = [spos EXCEPT ![activePos][activeServo] = v]
          /\ cmds' = <<c>>
          /\ target' = Apply(target, <<c>>)
          /\ delayt' = d
          /\ now' = now + d
    /\ ev' = "UpRepeat"
    /\ reps' = reps + 1
    /\ UNCHANGED <<pc, eeprom, activeServo, activePos, forceInit, posnRun>>

\* the up button reads released: the while is left
UpDone ==
    /\ pc = "up"
    /\ pc' = "down"
    /\ cmds' = <<>>
    /\ ev' = "UpDone"
    /\ UNCHANGED <<spos, eeprom, activeServo, activePos, lastchange, delayt,
                   now, pin, forceInit, target, reps, posnRun>>

\* while(digitalRead(down)==0) { ... }   one pass with the button read pressed
DownRepeat ==
    /\ pc = "down"
    /\ LET v == Dec(spos[activePos][activeServo])
           c == Cmd("write", activeServo, v)
           d == NextDelay(delayt)
       IN /\ lastchange' = now
          /\ spos' = [spos EXCEPT ![activePos][activeServo] = v]
          /\ cmds' = <<c>>
          /\ target' = Apply(target, <<c>>)
          /\ delayt' = d
          /\ now' = now + d
    /\ ev' = "DownRepeat"
    /\ reps' = reps + 1
    /\ UNCHANGED <<pc, eeprom, activeServo, activePos, forceInit, posnRun>>

DownDone ==
    /\ pc = "down"
    /\ pc' = "nextservo"
    /\ cmds' = <<>>
    /\ ev' = "DownDone"
    /\ UNCHANGED <<spos, eeprom, activeServo, activePos, lastchange, delayt,
                   now, pin, forceInit, target, reps, posnRun>>

\* if(digitalRead(nextservo)==0) { lastchange = millis(); startEaseTo(..);
NextServoPress ==
    /\ pc = "nextservo"
    /\ LET c == Cmd("ease", activeServo, spos[spos[2][activeServo]][activeServo])
       IN /\ cmds' = <<c>>
          /\ target' = Apply(target, <<c>>)
    /\ lastchange' = now
    /\ pc' = "hold"
    /\ ev' = "NextServoPress"
    /\ UNCHANGED <<spos, eeprom, activeServo, activePos, delayt, now, pin,
                   forceInit, reps, posnRun>>

NextServoSkip ==
    /\ pc = "nextservo"
    /\ pc' = "nextposn"
    /\ cmds' = <<>>
    /\ ev' = "NextServoSkip"
    /\ UNCHANGED <<spos, eeprom, activeServo, activePos, lastchange, delayt,
                   now, pin, forceInit, target, reps, posnRun>>

\* while( digitalRead(nextservo)==0 ) { if( (millis()-lastchange)>2000 ) .. }
\* the button is still read pressed after d more time-units of spinning
HoldSpin(d) ==
    /\ pc = "hold"
    /\ now' = now + d
    /\ activeServo' = IF HeldLong(now + d, lastchange) THEN nservos
                      ELSE activeServo
    /\ cmds' = <<>>
    /\ ev' = "HoldSpin"
    /\ UNCHANGED <<pc, spos, eeprom, activePos, lastchange, delayt, pin,
                   forceInit, target, reps, posnRun>>

\* the button reads released: the rest of the if block
HoldRelease ==
    /\ pc = "hold"
    /\ LET a == NextIndex(activeServo)
           p == spos[2][a]
           c == Cmd("ease", a, spos[p][a])
       IN /\ activeServo' = a
          /\ activePos' = p
          /\ cmds' = <<c>>
          /\ target' = Apply(target, <<c>>)
    /\ now' = now + BTNDELAY
    /\ pc' = "nextposn"
    /\ ev' = "HoldRelease"
    /\ UNCHANGED <<spos, eeprom, lastchange, delayt, pin, forceInit, reps,
                   posnRun>>

\* if(digitalRead(nextposn)==0) { ... }
NextPosnPress ==
    /\ pc = "nextposn"
    /\ LET p == NextPos(activePos)
           c == Cmd("ease", activeServo, spos[p][activeServo])
       IN /\ activePos' = p
          /\ cmds' = <<c>>
          /\ target' = Apply(target, <<c>>)
    /\ lastchange' = now
    /\ now' = now + BTNDELAY
    /\ pc' = "save"
    /\ ev' = "NextPosnPress"
    /\ posnRun' = posnRun + 1
    /\ UNCHANGED <<spos, eeprom, activeServo, delayt, pin, forceInit, reps>>

NextPosnSkip ==
    /\ pc = "nextposn"
    /\ pc' = "save"
    /\ cmds' = <<>>
    /\ ev' = "NextPosnSkip"
    /\ posnRun' = 0
    /\ UNCHANGED <<spos, eeprom, activeServo, activePos, lastchange, delayt,
                   now, pin, forceInit, target, reps>>

\* if(lastchange!=0 && millis()>(lastchange+20000)) { EEPROM.put(1,spos); .. }
Save ==
    /\ pc = "save"
    /\ SaveDue(now, lastchange)
    /\ eeprom' = EEPROMput(eeprom, spos)
    /\ lastchange' = 0
    /\ activeServo' = 0
    /\ LET cs == EaseAll(spos, 0)
       IN /\ cmds' = cs
          /\ target' = Apply(target, cs)
    /\ pc' = "scan"
    /\ ev' = "Save"
    /\ UNCHANGED <<spos, activePos, delayt, now, pin, forceInit, reps,
                   posnRun>>

SaveSkipNoScan ==
    /\ pc = "save"
    /\ ~SaveDue(now, lastchange)
    /\ pc' = "up"
    /\ cmds' = <<>>
    /\ ev' = "SaveSkip"
    /\ UNCHANGED <<spos, eeprom, activeServo, activePos, lastchange, delayt,
                   now, pin, forceInit, target, reps, posnRun>>

SaveSkip ==
    /\ pc = "save"
    /\ ~SaveDue(now, lastchange)
    /\ pc' = "scan"
    /\ cmds' = <<>>
    /\ ev' = "SaveSkip"
    /\ UNCHANGED <<spos, eeprom, activeServo, activePos, lastchange, delayt,
                   now, pin, forceInit, target, reps, posnRun>>

\* inputScan(); delay(100);  with the inputs reading lv; the next loop()
\* starts with delayt = 200
InputScan(lv) ==
    /\ pc = "scan"
    /\ pin' = lv
    /\ LET cs == ScanCmds(lv, spos, 0)
       IN /\ spos' = ScanTable(lv, spos)
          /\ cmds' = cs
          /\ target' = Apply(target, cs)
          /\ lastchange' = IF cs # <<>> THEN now ELSE lastchange
    /\ now' = now + LOOPDELAY
    /\ delayt' = DELAY0
    /\ pc' = "up"
    /\ ev' = "InputScan"
    /\ reps' = 0
    /\ UNCHANGED <<eeprom, activeServo, activePos, forceInit, posnRun>>

\* k whole passes of loop() in which no button reads pressed, the save is
\* not due and inputScan() finds every input matching: only time passes
IdleRun(k) ==
    /\ pc = "up"
    /\ k >= 1
    /\ \A s \in Servos : ~Mismatch(pin, spos, s)
    /\ ~SaveDue(now + (k - 1) * LOOPDELAY, lastchange)
    /\ now' = now + k * LOOPDELAY
    /\ delayt' = DELAY0
    /\ cmds' = <<>>
    /\ ev' = "IdleRun"
    /\ reps' = 0
    /\ posnRun' = 0
    /\ UNCHANGED <<pc, spos, eeprom, activeServo, activePos, lastchange, pin,
                   forceInit, target>>

----------------------------------------------------------------------------
\* The environment: what the pins read, within the bounds

Max(a, b) == IF a >= b THEN a ELSE b

\* the operator (or the signalling) acts in the pass of loop() that follows
\* the boot, a save or the previous action, or not before the next save
WindowOpen == now - Max(wake, lastAct) <= BTNDELAY + LOOPDELAY
MayAct == acts < MaxActs /\ WindowOpen

\* how long a held Next-Servo button is watched, in one stretch from the
\* press: exactly HOLDRESET, one more, and as long as the save delay
HoldSteps == {HOLDRESET, HOLDRESET + 1, SAVEAFTER}

\* the inputs that change level: the one of the servo selected at boot and
\* another
FlipChannels == {0, 1}

\* what the inputs may read at the next inputScan()
Levels ==
    {pin} \cup (IF MayAct
                THEN {[pin EXCEPT ![s] = Not(pin[s])] : s \in FlipChannels}
                ELSE {})

\* whole idle passes of loop() that end LOOPDELAY or more before the save is due
IdleLeap ==
    IF lastchange = 0 THEN 0
    ELSE (lastchange + SAVEAFTER - LOOPDELAY - now) \div LOOPDELAY

\* at the top of loop(), with the environment quiet: the passes up to the
\* save are taken in one step, and with nothing to save nothing more happens
Settled ==
    /\ pc = "up"
    /\ ~WindowOpen
    /\ \A s \in Servos : ~Mismatch(pin, spos, s)
    /\ (lastchange = 0 \/ IdleLeap >= 1)

\* a button is read pressed
Pressed ==
    /\ MayAct
    /\ acts' = acts + 1
    /\ lastAct' = now
    /\ UNCHANGED wake

Next ==
    \/ Startup /\ wake' = now' /\ UNCHANGED <<acts, lastAct, heldFrom>>
    \/ UpRepeat /\ Pressed /\ UNCHANGED <<heldFrom, pin>>
    \/ ~Settled /\ UpDone /\ UNCHANGED envv
    \/ DownRepeat /\ Pressed /\ UNCHANGED <<heldFrom, pin>>
    \/ DownDone /\ UNCHANGED envv
    \/ NextServoPress /\ Pressed /\ heldFrom' = activeServo
    \/ NextServoSkip /\ UNCHANGED envv
    \/ /\ now = lastchange
       /\ \E d \in HoldSteps : HoldSpin(d)
       /\ lastAct' = now'
       /\ UNCHANGED <<acts, wake, heldFrom>>
    \/ HoldRelease /\ UNCHANGED envv
    \/ NextPosnPress /\ Pressed /\ UNCHANGED heldFrom
    \/ NextPosnSkip /\ UNCHANGED envv
    \/ Save /\ wake' = now /\ UNCHANGED <<acts, lastAct, heldFrom>>
    \/ SaveSkip /\ UNCHANGED envv
    \/ \E lv \in Levels :
          /\ InputScan(lv)
          /\ acts' = IF lv # pin THEN acts + 1 ELSE acts
          /\ lastAct' = IF lv # pin \/ cmds' # <<>> THEN now ELSE lastAct
          /\ UNCHANGED <<wake, heldFrom>>
    \/ Settled /\ IdleRun(IdleLeap) /\ UNCHANGED envv

Spec == Init /\ [][Next]_vars

----------------------------------------------------------------------------
\* Browsing: the operator presses Next-Servo in every pass of loop(), for a
\* short or a long time, MaxBrowse times, and touches nothing else

BrowseSettled ==
    /\ pc = "up"
    /\ acts >= MaxBrowse
    /\ (lastchange = 0 \/ IdleLeap >= 1)

BrowseNext ==
    \/ Startup /\ wake' = now' /\ UNCHANGED <<acts, lastAct, heldFrom>>
    \/ ~BrowseSettled /\ UpDone /\ UNCHANGED envv
    \/ DownDone /\ UNCHANGED envv
    \/ /\ acts < MaxBrowse
       /\ NextServoPress
       /\ acts' = acts + 1
       /\ lastAct' = now
       /\ heldFrom' = activeServo
       /\ UNCHANGED wake
    \/ acts >= MaxBrowse /\ NextServoSkip /\ UNCHANGED envv
    \/ /\ now = lastchange
       /\ \E d \in {HOLDRESET, HOLDRESET + 1} : HoldSpin(d)
       /\ lastAct' = now'
       /\ UNCHANGED <<acts, wake, heldFrom>>
    \/ HoldRelease /\ UNCHANGED envv
    \/ NextPosnSkip /\ UNCHANGED envv
    \/ Save /\ wake' = now /\ UNCHANGED <<acts, lastAct, heldFrom>>
    \/ SaveSkip /\ UNCHANGED envv
    \/ InputScan(pin) /\ UNCHANGED envv
    \/ BrowseSettled /\ IdleRun(IdleLeap) /\ UNCHANGED envv

SpecBrowse == Init /\ [][BrowseNext]_vars

----------------------------------------------------------------------------
\* The scenario of the specification: an erased store; Next-Servo pressed
\* briefly in each of the first three passes; then Up held for 25 passes of
\* its while loop; then input 3 goes high; then nothing

ScenInit == Init /\ eeprom = ErasedEEPROM /\ forceInit = 0

ScenSelecting == acts < 3
ScenIncreasing == acts >= 3 /\ acts < 3 + 25
ScenFlipping == acts = 3 + 25
ScenOver == pc = "up" /\ acts > 3 + 25 /\ lastchange = 0

ScenNext ==
    \/ Startup /\ wake' = now' /\ UNCHANGED <<acts, lastAct, heldFrom>>
    \/ /\ ScenIncreasing
       /\ UpRepeat
       /\ acts' = acts + 1
       /\ lastAct' = now
       /\ UNCHANGED <<wake, heldFrom, pin>>
    \/ ~ScenIncreasing /\ ~ScenOver /\ UpDone /\ UNCHANGED envv
    \/ DownDone /\ UNCHANGED envv
    \/ /\ ScenSelecting
       /\ NextServoPress
       /\ acts' = acts + 1
       /\ lastAct' = now
       /\ heldFrom' = activeServo
       /\ UNCHANGED wake
    \/ ~ScenSelecting /\ NextServoSkip /\ UNCHANGED envv
    \/ HoldRelease /\ UNCHANGED envv
    \/ NextPosnSkip /\ UNCHANGED envv
    \/ Save /\ wake' = now /\ UNCHANGED <<acts, lastAct, heldFrom>>
    \/ SaveSkip /\ UNCHANGED envv
    \/ /\ ScenFlipping
       /\ InputScan([pin EXCEPT ![3] = Not(pin[3])])
       /\ acts' = acts + 1
       /\ lastAct' = now
       /\ UNCHANGED <<wake, heldFrom>>
    \/ ~ScenFlipping /\ InputScan(pin) /\ UNCHANGED envv

SpecScenario == ScenInit /\ [][ScenNext]_vars

----------------------------------------------------------------------------
\* Adjusting: in the first pass of loop() the operator keeps Up, then Down,
\* pressed for many passes of the while loops, MaxHold passes in all, while
\* the inputs change level, and touches nothing else

HoldSettled ==
    /\ pc = "up"
    /\ reps = 0
    /\ now > wake
    /\ \A s \in Servos : ~Mismatch(pin, spos, s)
    /\ (lastchange = 0 \/ IdleLeap >= 1)

\* a button is read pressed in its while loop, in the pass of loop() that
\* follows the boot
HoldPressed ==
    /\ acts < MaxHold
    /\ (reps > 0 \/ now = wake)
    /\ acts' = acts + 1
    /\ lastAct' = now
    /\ UNCHANGED <<wake, heldFrom>>

\* the levels of the inputs after a pass of a while loop: as before, or one
\* of them changed, as long as every input is still at its level of the boot
HoldLevels ==
    {pin} \cup (IF pin = [s \in Servos |-> 0]
                THEN {[pin EXCEPT ![s] = Not(pin[s])] : s \in FlipChannels}
                ELSE {})

HoldNext ==
    \/ Startup /\ wake' = now' /\ UNCHANGED <<acts, lastAct, heldFrom>>
    \/ UpRepeat /\ HoldPressed /\ pin' \in HoldLevels
    \/ ~HoldSettled /\ UpDone /\ UNCHANGED envv
    \/ DownRepeat /\ HoldPressed /\ pin' \in HoldLevels
    \/ DownDone /\ UNCHANGED envv
    \/ NextServoSkip /\ UNCHANGED envv
    \/ NextPosnSkip /\ UNCHANGED envv
    \/ Save /\ wake' = now /\ UNCHANGED <<acts, lastAct, heldFrom>>
    \/ SaveSkip /\ UNCHANGED envv
    \/ /\ InputScan(pin)
       /\ lastAct' = IF cmds' # <<>> THEN now ELSE lastAct
       /\ UNCHANGED <<acts, wake, heldFrom>>
    \/ HoldSettled /\ IdleRun(IdleLeap) /\ UNCHANGED envv

SpecHold == Init /\ [][HoldNext]_vars

----------------------------------------------------------------------------
\* Properties

\* every position within the limits, every current-position flag 0 or 1
TableInRange ==
    \A s \in Servos :
        /\ spos[0][s] \in MINPOSN .. MAXPOSN
        /\ spos[1][s] \in MINPOSN .. MAXPOSN
        /\ spos[2][s] \in {0, 1}

\* C1: started from a table within the limits, every position stays within
\* MINPOSN .. MAXPOSN and every current-position flag stays 0 or 1 through
\* all the steps; an Up pass on a position at MAXPOSN and a Down pass on a
\* position at MINPOSN leave the table as it was.
C1_PositionsInRange ==
    /\ [](pc # "setup" => TableInRange)
    /\ [][/\ (ev' = "UpRepeat" /\ spos[activePos][activeServo] = MAXPOSN)
              => spos' = spos
          /\ (ev' = "DownRepeat" /\ spos[activePos][activeServo] = MINPOSN)
              => spos' = spos]_vars

\* an Up pass taken on the loaded position of channel 0, which is at MAXPOSN
C1_Witness ==
    /\ ev = "UpRepeat"
    /\ acts = 1
    /\ eeprom[Addr(0, 0)] = MAXPOSN
    /\ spos[0][0] = MAXPOSN
    /\ cmds = <<Cmd("write", 0, MAXPOSN)>>

\* the commands of a step that address servo s
CmdsFor(cs, s) == SelectSeq(cs, LAMBDA c : c.servo = s)

\* C2: in one inputScan(), a channel whose input level differs from its
\* current-position flag has the flag toggled, gets exactly one eased move,
\* to the position the new flag selects, and lastchange is set to the time
\* of the scan; a channel whose level equals its flag keeps its table entries
\* and its servo target and gets no move.  After a scan every flag equals
\* the level read, so a further scan of unchanged levels moves nothing.
C2_ScanTogglesOnce ==
    /\ [][ev' = "InputScan" =>
            \A s \in Servos :
                /\ spos'[0][s] = spos[0][s]
                /\ spos'[1][s] = spos[1][s]
                /\ IF pin'[s] # spos[2][s]
                   THEN /\ spos'[2][s] = 1 - spos[2][s]
                        /\ CmdsFor(cmds', s) =
                              <<Cmd("ease", s, spos[1 - spos[2][s]][s])>>
                        /\ lastchange' = now
                   ELSE /\ spos'[2][s] = spos[2][s]
                        /\ CmdsFor(cmds', s) = <<>>
                        /\ target'[s] = target[s]]_vars
    /\ [](ev = "InputScan" => \A s \in Servos : spos[2][s] = pin[s])

\* a scan that found the input of channel 1 changed to high
C2_Witness ==
    /\ ev = "InputScan"
    /\ pin[1] = 1
    /\ spos[2][1] = 1
    /\ cmds = <<Cmd("ease", 1, spos[1][1])>>
    /\ lastchange = now - LOOPDELAY

\* the table held by the store
Stored == [r \in 0 .. 2 |-> [s \in Servos |-> eeprom[1 + r * nservos + s]]]

\* C3, as stated: once SAVEAFTER has elapsed since the last pressed reading,
\* input level change and setting of lastchange, the store holds the table
\* and lastchange is 0.
C3_SavedOnceQuietElapsed ==
    (/\ pc # "setup"
     /\ lastAct >= 0
     /\ now - lastAct >= SAVEAFTER
     /\ (lastchange = 0 \/ now - lastchange >= SAVEAFTER))
        => (Stored = spos /\ lastchange = 0)

\* C3, amended: the save is made by the first save test later than SAVEAFTER
\* after lastchange, not at the expiry of SAVEAFTER.  Right after a save
\* test a pending change is at most SAVEAFTER old; in the idle loop a change
\* is pending no longer than SAVEAFTER + LOOPDELAY after the later of
\* lastchange and the last pressed reading; whenever lastchange is 0 the
\* store holds the table; and with lastchange 0 both stay so through every
\* step without a pressed reading or an input found changed.
C3_SavedAtNextTestAfterQuiet ==
    /\ []((pc = "scan" /\ lastchange # 0) => now <= lastchange + SAVEAFTER)
    /\ [](lastchange # 0 =>
            now - Max(lastchange, lastAct) <= SAVEAFTER + LOOPDELAY)
    /\ []((pc # "setup" /\ lastchange = 0) => Stored = spos)
    /\ [][(/\ pc # "setup"
           /\ lastchange = 0
           /\ acts' = acts /\ lastAct' = lastAct)
          => (lastchange' = 0 /\ eeprom' = eeprom /\ spos' = spos)]_vars

\* a save made after an edit and more than SAVEAFTER without activity
C3_Witness ==
    /\ ev = "Save"
    /\ acts > 0
    /\ now - lastAct > SAVEAFTER
    /\ lastchange = 0
    /\ Stored = spos
    /\ spos # DefaultTable

\* C4, as stated: at a save, no button has read pressed and no input level
\* has changed during the SAVEAFTER time-units before it.
C4_SaveOnlyAfterInactivity ==
    ev = "Save" => (lastAct < 0 \/ now - lastAct >= SAVEAFTER)

\* C5: a Next-Servo press held for at most HOLDRESET leaves activeServo at
\* the successor, modulo nservos, of the servo selected at the press; one
\* held longer leaves it at 0.
C5_NextServoAdvancesOrResets ==
    [][ev' = "HoldRelease" =>
         activeServo' = IF now - lastchange > HOLDRESET THEN 0
                        ELSE (heldFrom + 1) % nservos]_vars

\* a long hold on channel 7, reached by seven short presses, back to 0
C5_Witness ==
    /\ ev = "HoldRelease"
    /\ heldFrom = nservos - 1
    /\ now - BTNDELAY - lastchange > HOLDRESET
    /\ activeServo = 0

\* C6: a Next-Position press sets activePos to (activePos + 1) mod 2, issues
\* one eased move of the active servo to the position the new activePos
\* selects and sets lastchange to the time of the press; activePos is 0 or 1
\* in every state.
C6_NextPosnToggles ==
    /\ [][ev' = "NextPosnPress" =>
            /\ activePos' = (activePos + 1) % 2
            /\ cmds' = <<Cmd("ease", activeServo,
                             spos[(activePos + 1) % 2][activeServo])>>
            /\ lastchange' = now]_vars
    /\ [](activePos \in {0, 1})

\* a second Next-Position press, taking activePos from 1 back to 0
C6_Witness ==
    /\ ev = "NextPosnPress"
    /\ acts = 2
    /\ activePos = 0
    /\ lastchange = now - BTNDELAY
    /\ Len(cmds) = 1

\* C7: setup() on a marker other than MAGIC, or with INIT set, ends with the
\* marker MAGIC and, for every channel, 130, 50 and 0 in the table and in
\* the store; on the marker MAGIC without INIT it leaves the store as it was
\* and loads the table from it.
C7_StartupDefaults ==
    [][pc = "setup" =>
         IF eeprom[0] # MAGIC \/ forceInit # 0
         THEN /\ eeprom'[0] = MAGIC
              /\ \A s \in Servos :
                    /\ spos'[0][s] = 130 /\ eeprom'[1 + s] = 130
                    /\ spos'[1][s] = 50 /\ eeprom'[1 + nservos + s] = 50
                    /\ spos'[2][s] = 0 /\ eeprom'[1 + 2 * nservos + s] = 0
         ELSE /\ eeprom' = eeprom
              /\ \A r \in 0 .. 2 : \A s \in Servos :
                    spos'[r][s] = eeprom[1 + r * nservos + s]]_vars

\* setup() done on a build with INIT set: the defaults are in place
C7_Witness ==
    /\ ev = "Startup"
    /\ forceInit = 1
    /\ eeprom[0] = MAGIC
    /\ spos = DefaultTable
    /\ Stored = DefaultTable

\* C8, as stated: the save test saves exactly when lastchange is set and at
\* least SAVEAFTER has elapsed since it.
C8_SavesAtQuietOrMore ==
    [][pc = "save" =>
         (ev' = "Save" <=> (lastchange # 0 /\ now - lastchange >= SAVEAFTER))]_vars

\* C8, amended: the save test saves exactly when lastchange is set and more
\* than SAVEAFTER has elapsed since it; at exactly SAVEAFTER it does not.
C8_SavesAfterMoreThanQuiet ==
    [][pc = "save" =>
         (ev' = "Save" <=> (lastchange # 0 /\ now - lastchange > SAVEAFTER))]_vars

\* a save test passed over with exactly SAVEAFTER elapsed
C8_Witness ==
    /\ ev = "SaveSkip"
    /\ lastchange # 0
    /\ now - lastchange = SAVEAFTER

\* C9: after setup() the store is written only by the save step, and the
\* save step is taken only with lastchange set.
C9_OnlySaveWritesStore ==
    [][(pc # "setup" /\ (eeprom' # eeprom \/ ev' = "Save"))
          => (pc = "save" /\ ev' = "Save" /\ lastchange # 0)]_vars

\* a save that left in the store a table no boot leaves there
C9_Witness ==
    /\ ev = "Save"
    /\ eeprom \notin InitStores
    /\ Stored = spos

\* C10, as stated: in the scenario, after setup() channel 3 holds 130, 50
\* and 0; after the 25 Up passes on channel 3, position 0, it holds 155; the
\* scan that finds input 3 changed sets its flag to 1 and issues one eased
\* move of servo 3 to 50; and once SAVEAFTER has elapsed since that change
\* the store holds 155 as first position of channel 3.
C10_ScenarioStoredAtQuiet ==
    /\ ev = "Startup" => (spos[0][3] = 130 /\ spos[1][3] = 50 /\ spos[2][3] = 0)
    /\ (ev = "UpRepeat" /\ acts = 3 + 25)
          => (activeServo = 3 /\ activePos = 0 /\ spos[0][3] = 155)
    /\ (ev = "InputScan" /\ pin[3] = 1 /\ lastAct + LOOPDELAY = now)
          => (spos[2][3] = 1 /\ cmds = <<Cmd("ease", 3, 50)>> /\ target[3] = 50)
    /\ (pin[3] = 1 /\ now - lastAct >= SAVEAFTER) => eeprom[1 + 3] = 155

\* C10, amended in its last step: the store holds 155 as first position of
\* channel 3 once the first save test later than SAVEAFTER after the change
\* of input 3 has been made, which is SAVEAFTER + LOOPDELAY after it; when
\* exactly SAVEAFTER has elapsed it still holds 130.
C10_ScenarioStoredAfterQuiet ==
    /\ ev = "Startup" => (spos[0][3] = 130 /\ spos[1][3] = 50 /\ spos[2][3] = 0)
    /\ (ev = "UpRepeat" /\ acts = 3 + 25)
          => (activeServo = 3 /\ activePos = 0 /\ spos[0][3] = 155)
    /\ (ev = "InputScan" /\ pin[3] = 1 /\ lastAct + LOOPDELAY = now)
          => (spos[2][3] = 1 /\ cmds = <<Cmd("ease", 3, 50)>> /\ target[3] = 50)
    /\ pin[3] = 1 => spos[2][3] = 1
    /\ (pin[3] = 1 /\ now - lastAct = SAVEAFTER) => eeprom[1 + 3] = 130
    /\ (/\ pin[3] = 1
        /\ \/ now - lastAct > SAVEAFTER + LOOPDELAY
           \/ (now - lastAct > SAVEAFTER /\ pc = "scan"))
          => eeprom[1 + 3] = 155

\* the end of the scenario: 155 stored, servo 3 at its second position
C10_Witness ==
    /\ acts = 3 + 25 + 1
    /\ pin[3] = 1
    /\ spos[2][3] = 1
    /\ target[3] = 50
    /\ lastchange = 0
    /\ now - lastAct > SAVEAFTER
    /\ eeprom[1 + 3] = 155

\* C11, as stated: the delay that follows the k-th pass of the while loops
\* is max(50, 200 - 10*(k-1)), so that the first delay is 200.
C11_DelayStartsAtInitial ==
    [][ev' \in {"UpRepeat", "DownRepeat"} =>
         now' - now = Max(50, 200 - 10 * (reps' - 1))]_vars

\* C11, amended: delayt is decreased before the delay is made, so the delay
\* that follows the k-th pass is max(50, 200 - 10*k): 190 after the first
\* pass, 10 less after each later one, 50 from the 15th on.  k counts the
\* passes of both while loops since the top of loop(): a Down loop entered
\* right after an Up loop goes on from the delay the Up loop left.  delayt
\* never increases within a pass of loop() and stays within 50 .. 200.
C11_DelayRampsFromFirstStep ==
    /\ [][ev' \in {"UpRepeat", "DownRepeat"} =>
            /\ now' - now = Max(50, 200 - 10 * reps')
            /\ delayt' = now' - now
            /\ delayt' <= delayt]_vars
    /\ [](delayt \in 50 .. 200)
    /\ []((pc = "up" /\ reps = 0) => delayt = 200)

\* a Down pass made at the floor, after Up passes in the same pass of loop()
C11_Witness ==
    /\ ev = "DownRepeat"
    /\ reps = 17
    /\ spos[0][0] > 130
    /\ delayt = 50
    /\ now - lastchange = 50

\* C12, as stated: one press of Next-Servo or Next-Position, however long,
\* gives one advance or reset, respectively one toggle of activePos: the
\* hold loop of Next-Servo is left only on a released reading, and
\* activePos is toggled only if Next-Position has read released since its
\* previous toggle.
C12_SingleShotButtons ==
    [][/\ (pc = "hold" /\ pc' # "hold") => ev' = "HoldRelease"
       /\ ev' = "NextPosnPress" => posnRun = 0]_vars

\* C13, as stated: in every state activeServo is in 0 .. nservos-1 and
\* activePos is 0 or 1, also while Next-Servo is held longer than HOLDRESET.
C13_CursorAlwaysValid ==
    activeServo \in Servos /\ activePos \in {0, 1}

\* C13, amended: activePos is 0 or 1 in every state; activeServo is in
\* 0 .. nservos-1 in every state but those of the hold loop of Next-Servo
\* once the button has been held longer than HOLDRESET, where it is nservos,
\* one past the last index, until the release.  Every step that indexes the
\* table or a servo through activeServo and activePos is taken with both in
\* range, the release included, and every command goes to a servo in
\* 0 .. nservos-1 with an angle of the table.
C13_CursorValidOutsideLongHold ==
    /\ [](activePos \in {0, 1})
    /\ [](IF pc = "hold" /\ now - lastchange > HOLDRESET
          THEN activeServo = nservos
          ELSE activeServo \in Servos)
    /\ [][/\ ev' \in {"UpRepeat", "DownRepeat", "NextServoPress", "NextPosnPress"}
              => (activeServo \in Servos /\ activePos \in {0, 1})
          /\ ev' \in {"HoldRelease", "NextPosnPress"}
              => (activeServo' \in Servos /\ activePos' \in {0, 1})]_vars
    /\ [](\A i \in 1 .. Len(cmds) :
            /\ cmds[i].servo \in Servos
            /\ \E r \in {0, 1} : cmds[i].angle = spos[r][cmds[i].servo])

\* in the hold loop, the button held one time-unit longer than HOLDRESET
C13_Witness ==
    /\ pc = "hold"
    /\ ev = "HoldSpin"
    /\ now - lastchange = HOLDRESET + 1
    /\ activeServo = nservos

\* C14: the save step sets lastchange to 0 and activeServo to 0, leaves the
\* table as it was and the store holding the whole of it, and issues one
\* eased move per servo, in index order, to the position its flag selects,
\* so that after the step the target of every servo is that position.
C14_SaveStepEffects ==
    [][ev' = "Save" =>
         /\ lastchange' = 0
         /\ activeServo' = 0
         /\ spos' = spos
         /\ \A r \in 0 .. 2 : \A s \in Servos :
               eeprom'[1 + r * nservos + s] = spos[r][s]
         /\ eeprom'[0] = eeprom[0]
         /\ Len(cmds') = nservos
         /\ \A s \in Servos :
               /\ cmds'[s + 1] = Cmd("ease", s, spos[spos[2][s]][s])
               /\ target'[s] = spos'[spos'[2][s]][s]]_vars

\* a save that ended a preview: servo 0 was showing the position its flag
\* does not select, and the save moved it back
C14_Witness ==
    /\ ev = "Save"
    /\ activePos # spos[2][0]
    /\ spos[activePos][0] # spos[spos[2][0]][0]
    /\ target[0] = spos[spos[2][0]][0]
    /\ lastchange = 0
    /\ Stored = spos

\* C15: a pass of the Up or Down while loop stays in that loop, writes
\* nothing to the store, leaves activeServo, activePos and every flag as
\* they were and issues no eased move, whatever the levels of the inputs
\* are and become; the loop is left only by a released reading of its
\* button; and every save, input scan, Next-Servo and Next-Position step is
\* taken outside the two loops.  So as long as the button reads pressed the
\* store is not written.
C15_HeldLoopStarvesTheRest ==
    [][/\ ev' \in {"UpRepeat", "DownRepeat"} =>
            /\ pc' = pc
            /\ pc \in {"up", "down"}
            /\ eeprom' = eeprom
            /\ activeServo' = activeServo
            /\ activePos' = activePos
            /\ spos'[2] = spos[2]
            /\ \A i \in 1 .. Len(cmds') : cmds'[i].kind = "write"
            /\ \A s \in Servos : s # activeServo => target'[s] = target[s]
            /\ lastchange' # 0
       /\ (pc = "up" /\ pc' # "up") => ev' = "UpDone"
       /\ (pc = "down" /\ pc' # "down") => ev' = "DownDone"
       /\ (eeprom' # eeprom \/ ev' \in {"Save", "SaveSkip", "InputScan",
               "NextServoPress", "HoldRelease", "NextPosnPress"})
             => pc \notin {"up", "down"}]_vars

\* the 17th pass in a row, Up then Down, with input 1 changed meanwhile and
\* still not followed, and the edit not saved
C15_Witness ==
    /\ ev = "DownRepeat"
    /\ pc = "down"
    /\ reps = 17
    /\ now - wake > 1000
    /\ pin[1] = 1
    /\ spos[2][1] = 0
    /\ target[1] = spos[0][1]
    /\ Stored # spos

\* the sections of loop() that may follow one another
LoopOrder ==
    {<<"setup", "up">>, <<"up", "up">>, <<"up", "down">>, <<"down", "down">>,
     <<"down", "nextservo">>, <<"nextservo", "hold">>,
     <<"nextservo", "nextposn">>, <<"hold", "hold">>, <<"hold", "nextposn">>,
     <<"nextposn", "save">>, <<"save", "scan">>, <<"scan", "up">>}

\* the step that belongs to each section
StepsOf(p) ==
    CASE p = "setup" -> {"Startup"}
      [] p = "up" -> {"UpRepeat", "UpDone", "IdleRun"}
      [] p = "down" -> {"DownRepeat", "DownDone"}
      [] p = "nextservo" -> {"NextServoPress", "NextServoSkip"}
      [] p = "hold" -> {"HoldSpin", "HoldRelease"}
      [] p = "nextposn" -> {"NextPosnPress", "NextPosnSkip"}
      [] p = "save" -> {"Save", "SaveSkip"}
      [] OTHER -> {"InputScan"}

\* C16: in every pass of loop() the sections follow one another in this
\* order: the Up loop, the Down loop, the Next-Servo block, the
\* Next-Position block, the save test, the input scan; the table changes
\* only in the two loops and in the scan; and a save stores the table as
\* the two loops of that pass left it, the scan of that pass coming only
\* after it.
C16_StepsInProgramOrder ==
    [][/\ <<pc, pc'>> \in LoopOrder
       /\ ev' \in StepsOf(pc)
       /\ pc \in {"nextservo", "hold", "nextposn", "save"} => spos' = spos
       /\ ev' = "Save" => (Stored' = spos /\ pc' = "scan")
       /\ ev' = "InputScan" => ev \in {"Save", "SaveSkip"}
       /\ ev' \in {"Save", "SaveSkip"} => ev \in {"NextPosnPress", "NextPosnSkip"}
       /\ ev' \in {"NextPosnPress", "NextPosnSkip"}
             => ev \in {"NextServoSkip", "HoldRelease"}
       /\ ev' \in {"NextServoPress", "NextServoSkip"} => ev = "DownDone"
       /\ ev' = "DownDone" => ev \in {"UpDone", "DownRepeat"}
       /\ ev' = "DownRepeat" => ev \in {"UpDone", "DownRepeat"}]_vars

\* a save in the pass of loop() that began with an Up pass on servo 0: the
\* store holds the edited position
C16_Witness ==
    /\ ev = "Save"
    /\ pc = "scan"
    /\ reps = 1
    /\ spos[activePos][0] \notin {130, 50, MAXPOSN, MINPOSN}
    /\ Stored = spos

\* C17: a pass of the Up (Down) loop adds (subtracts) 1 to the position
\* spos[activePos][activeServo], or leaves it when it is at MAXPOSN
\* (MINPOSN); every other entry of the table, activeServo, activePos and the
\* store stay as they were; exactly one command is issued, a direct write
\* of the resulting position to the active servo; and lastchange is set to
\* the time of the pass, also when the position was at its limit.
C17_RepeatTouchesOnlyActiveEntry ==
    [][ev' \in {"UpRepeat", "DownRepeat"} =>
         LET old == spos[activePos][activeServo]
             new == spos'[activePos][activeServo]
         IN /\ new = IF ev' = "UpRepeat"
                     THEN (IF old = MAXPOSN THEN old ELSE old + 1)
                     ELSE (IF old = MINPOSN THEN old ELSE old - 1)
            /\ \A r \in 0 .. 2 : \A s \in Servos :
                  (r # activePos \/ s # activeServo) => spos'[r][s] = spos[r][s]
            /\ activeServo' = activeServo
            /\ activePos' = activePos
            /\ eeprom' = eeprom
            /\ cmds' = <<Cmd("write", activeServo, new)>>
            /\ target' = [target EXCEPT ![activeServo] = new]
            /\ lastchange' = now]_vars

\* a Down pass on the second position of servo 0, which is at MINPOSN: the
\* table is as saved, the servo is written MINPOSN, lastchange is set
C17_Witness ==
    /\ ev = "DownRepeat"
    /\ activeServo = 0
    /\ activePos = 1
    /\ spos[1][0] = MINPOSN
    /\ spos = Stored
    /\ cmds = <<Cmd("write", 0, MINPOSN)>>
    /\ lastchange = now - delayt

\* C18: at a Next-Servo press the servo selected so far gets one eased move
\* to the position its flag selects, and nothing else changes until the
\* release; at the release activeServo becomes the successor of that servo,
\* or 0 after a long hold, activePos becomes the flag of the newly selected
\* servo, and that servo gets one eased move to the position activePos
\* selects.  So after the release activePos equals the flag of the active
\* servo and both servos stand at the positions their flags select.
C18_NextServoSequence ==
    /\ [][/\ ev' = "NextServoPress" =>
                /\ cmds' = <<Cmd("ease", activeServo,
                                 spos[spos[2][activeServo]][activeServo])>>
                /\ activeServo' = activeServo
                /\ activePos' = activePos
                /\ spos' = spos
          /\ ev' = "HoldSpin" =>
                (cmds' = <<>> /\ target' = target /\ spos' = spos
                    /\ activePos' = activePos)
          /\ ev' = "HoldRelease" =>
                LET new == IF now - lastchange > HOLDRESET THEN 0
                           ELSE (heldFrom + 1) % nservos
                IN /\ ev \in {"NextServoPress", "HoldSpin"}
                   /\ activeServo' = new
                   /\ activePos' = spos[2][new]
                   /\ cmds' = <<Cmd("ease", new, spos[spos[2][new]][new])>>
                   /\ spos' = spos]_vars
    /\ [](ev = "HoldRelease" =>
            /\ activePos = spos[2][activeServo]
            /\ target[activeServo] = spos[activePos][activeServo]
            /\ target[heldFrom] = spos[spos[2][heldFrom]][heldFrom])

\* Next-Servo pressed in the pass after a Next-Position press on servo 0:
\* servo 0 is back at the position its flag selects, servo 1 is selected
C18_Witness ==
    /\ ev = "HoldRelease"
    /\ posnRun = 1
    /\ heldFrom = 0
    /\ activeServo = 1
    /\ activePos = spos[2][1]
    /\ target[0] = spos[spos[2][0]][0]
    /\ target[1] = spos[spos[2][1]][1]

\* C19: at the top of loop(), lastchange = 0 implies that the store holds
\* the table, whether setup() loaded the table or wrote the defaults; every
\* step after setup() that changes the table sets lastchange to its time,
\* which is not 0; and lastchange goes back to 0 only in the save step.
C19_CleanMeansStored ==
    /\ []((pc = "up" /\ lastchange = 0) => Stored = spos)
    /\ [][(pc # "setup" /\ spos' # spos)
            => (lastchange' = now /\ lastchange' # 0)]_vars
    /\ [][(lastchange # 0 /\ lastchange' = 0) => ev' = "Save"]_vars

\* the top of loop() in the pass after a save of an edited table
C19_Witness ==
    /\ pc = "up"
    /\ ev = "InputScan"
    /\ lastchange = 0
    /\ acts > 0
    /\ eeprom \notin InitStores
    /\ Stored = spos

\* C20: after setup(), every servo other than the active one stands at the
\* position its flag selects: a position shown by Next-Position, or written
\* by Up or Down, that differs from it is on the active servo only; this
\* holds at the top of loop() and in every section of it, and after a save,
\* which sets activeServo to 0, it holds of servo 0 as well.
C20_OnlyActiveServoOffItsSlot ==
    /\ [](pc # "setup" =>
            \A s \in Servos :
                s # activeServo => target[s] = spos[spos[2][s]][s])
    /\ [](ev = "Save" => \A s \in Servos : target[s] = spos[spos[2][s]][s])

\* the top of loop() with servo 1 selected and showing the position its
\* flag does not select, every other servo at the position its flag selects
C20_Witness ==
    /\ pc = "up"
    /\ ev = "InputScan"
    /\ activeServo = 1
    /\ activePos # spos[2][1]
    /\ target[1] = spos[activePos][1]
    /\ target[1] # spos[spos[2][1]][1]
    /\ \A s \in Servos \ {1} : target[s] = spos[spos[2][s]][s]

====
